---------------------------- MODULE Spec2Model ----------------------------
(***************************************************************************)
(* A model of minidaw's audio_composition.py: the Timeline / Instrument /  *)
(* Wavetable rendering pipeline.                                           *)
(*                                                                         *)
(* Times (start_time, duration, the render window) are rationals with      *)
(* denominator TimeDen: the model keeps the numerator ("ticks").  Sample   *)
(* rates are samples per time unit, so int(t * sr) is the truncation of    *)
(* ticks * sr / TimeDen, computed exactly (the rounding of the floating    *)
(* point product is not modelled).  Buffers are sequences of integers; a   *)
(* velocity is an integer multiplier.  An Instrument is identified with    *)
(* its Wavetable and its AudioSample; add_track's wrapping of a bare       *)
(* SoundGenerator in Instrument(Wavetable(...)) yields such an Instrument. *)
(***************************************************************************)
EXTENDS Integers, Sequences, FiniteSets, TLC

VARIABLES
    tracks,       \* Timeline.tracks: dict track id -> Track
    notes,        \* Timeline.notes: list of Note
    keep_sorted,  \* Timeline.keep_sorted
    sr,           \* Timeline.sr
    wavetable,    \* per Instrument: Wavetable.wavetable, dict pitch -> buffer
    calls,        \* per Instrument and pitch: calls of sound_generator.get_sound
    ret,          \* the last call and what it returned or raised
    threads       \* per thread: where it is in Wavetable.__getitem__, its locals

vars == <<tracks, notes, keep_sorted, sr, wavetable, calls, ret, threads>>

----------------------------------------------------------------------------
(* Bounds of the model *)

MaxNotes == 3
MaxRenderNotes == 2
MaxNoteList == 2
MaxTrackId == 2
MaxTime == 2
MaxDuration == 2
MaxEnd == 4
MaxVelocity == 2
MaxSr == 2
MaxTrackList == 2
MaxPlayDuration == 4
NumThreads == 2
NumInstruments == 2
TimeDen == 2

Instruments == 1..NumInstruments
TrackIds == 0..MaxTrackId
PitchNames == <<"C4", "D4">>
Pitches == {PitchNames[k] : k \in 1..Len(PitchNames)}
Velocities == 1..MaxVelocity
SampleRates == 1..MaxSr

Min(a, b) == IF a < b THEN a ELSE b
Max(a, b) == IF a > b THEN a ELSE b

----------------------------------------------------------------------------
(* Python and numpy primitives *)

\* round(a / d) of Python 3: to the nearest integer, a half to the even one
PyRound(a, d) ==
    LET q == a \div d
        r == a % d
    IN  IF 2 * r < d THEN q
        ELSE IF 2 * r > d THEN q + 1
        ELSE IF q % 2 = 0 THEN q ELSE q + 1

\* int(a / d) for d > 0: truncation toward zero
PyInt(a, d) == IF a >= 0 THEN a \div d ELSE -((-a) \div d)

\* int(t * rate) for a time of t ticks
ToSamples(t, rate) == PyInt(t * rate, TimeDen)

\* a slice bound i of a sequence of length n, as Python normalises it
SliceBound(i, n) == IF i < 0 THEN Max(i + n, 0) ELSE Min(i, n)

\* a trim that pads a short sound with silence up to the requested length
PyPrefixPadded(s, m) == [k \in 1..Max(m, 0) |-> IF k <= Len(s) THEN s[k] ELSE 0]

\* s[:m]
PyPrefix(s, m) == SubSeq(s, 1, SliceBound(m, Len(s)))

\* buffer * velocity: a new array
Scale(s, v) == [k \in 1..Len(s) |-> s[k] * v]

\* an allocation that does not clear the buffer (np.empty, np.ones)
ZerosUncleared(n) == [k \in 1..n |-> 1]

\* np.zeros(n)
Zeros(n) == [k \in 1..n |-> 0]

\* can a[start_idx:end_idx] += sound broadcast: the slice and the sound have
\* the same length, or the sound has one sample
CanAccumulate(n, start_idx, L) ==
    LET s == SliceBound(start_idx, n)
        e == SliceBound(start_idx + L, n)
        m == Max(e - s, 0)
    IN  L = m \/ L = 1

\* an accumulation that assigns: a[start_idx:end_idx] = sound
AccumulateAssign(a, start_idx, sound) ==
    LET n == Len(a)
        L == Len(sound)
        s == SliceBound(start_idx, n)
        e == SliceBound(start_idx + L, n)
    IN  [k \in 1..n |->
            IF k > s /\ k <= e
            THEN (IF L = 1 THEN sound[1] ELSE sound[k - s])
            ELSE a[k]]

\* a[start_idx:start_idx + len(sound)] += sound, when it can broadcast
Accumulate(a, start_idx, sound) ==
    LET n == Len(a)
        L == Len(sound)
        s == SliceBound(start_idx, n)
        e == SliceBound(start_idx + L, n)
    IN  [k \in 1..n |->
            IF k > s /\ k <= e
            THEN a[k] + (IF L = 1 THEN sound[1] ELSE sound[k - s])
            ELSE a[k]]

----------------------------------------------------------------------------
(* SoundGenerator, Wavetable, Instrument *)

\* AudioSample.data of the sample behind instrument i
SampleData(i) == <<2 * i - 1, 2 * i>>

\* Wavetable.sr of instrument i
WavetableSr(i) == i

\* AudioSample.get_sound: the pitch is not looked at, the data is returned
AudioSampleGetSound(i, rate) == SampleData(i)

\* Wavetable.get_sound(k) on the heap h = [wavetable, calls]
WavetableGetSound(h, i, k) ==
    [heap  |-> [h EXCEPT !.calls[i][k] = @ + 1],
     value |-> AudioSampleGetSound(i, WavetableSr(i))]

\* a lookup that generates every time and stores nothing
GetItemNoStore(h, i, k) == WavetableGetSound(h, i, k)

\* Wavetable.__getitem__(k)
WavetableGetItem(h, i, k) ==
    IF k \notin DOMAIN h.wavetable[i]
    THEN LET g == WavetableGetSound(h, i, k)
         IN  [heap  |-> [g.heap EXCEPT !.wavetable[i] = (k :> g.value) @@ @],
              value |-> g.value]
    ELSE [heap |-> h, value |-> h.wavetable[i][k]]

\* the trimmed, scaled sound of a note played from base buffer b
NoteSound(b, i, n) ==
    LET sound == Scale(b, n.velocity)
    IN  IF n.time_wise
        THEN PyPrefix(sound, ToSamples(n.duration, WavetableSr(i)))
        ELSE sound

\* play_note scaling the cached buffer in place (sound *= velocity)
PlayNoteInPlace(h, i, n) ==
    LET r == WavetableGetItem(h, i, n.note)
    IN  [heap  |-> [r.heap EXCEPT !.wavetable[i][n.note] = Scale(r.value, n.velocity)],
         value |-> NoteSound(r.value, i, n)]

\* Instrument.play_note(note)
PlayNote(h, i, n) ==
    LET r == WavetableGetItem(h, i, n.note)
    IN  [heap |-> r.heap, value |-> NoteSound(r.value, i, n)]

----------------------------------------------------------------------------
(* Timeline: notes *)

Notes ==
    [track_id : TrackIds, note : Pitches, start_time : 0..MaxTime,
     duration : 0..MaxDuration, velocity : Velocities, time_wise : BOOLEAN]

\* bisect.bisect_left: the position before the notes of start_time x
RECURSIVE BisectLeft(_, _, _, _)
BisectLeft(a, x, lo, hi) ==
    IF lo < hi
    THEN LET mid == (lo + hi) \div 2
         IN  IF a[mid + 1].start_time < x
             THEN BisectLeft(a, x, mid + 1, hi)
             ELSE BisectLeft(a, x, lo, mid)
    ELSE lo

\* bisect.bisect_right(a, x.start_time, key = start_time): the binary search
RECURSIVE BisectRight(_, _, _, _)
BisectRight(a, x, lo, hi) ==
    IF lo < hi
    THEN LET mid == (lo + hi) \div 2
         IN  IF x < a[mid + 1].start_time
             THEN BisectRight(a, x, lo, mid)
             ELSE BisectRight(a, x, mid + 1, hi)
    ELSE lo

InsertAt(a, p, n) == SubSeq(a, 1, p) \o <<n>> \o SubSeq(a, p + 1, Len(a))

\* an insort that puts every note first
InsortFront(a, n) == <<n>> \o a

\* bisect.insort(a, n, key = start_time)
Insort(a, n) == InsertAt(a, BisectRight(a, n.start_time, 0, Len(a)), n)

RECURSIVE InsortAll(_, _)
InsortAll(a, ns) ==
    IF ns = <<>> THEN a ELSE InsortAll(Insort(a, Head(ns)), Tail(ns))

\* a sort that leaves the list as it is
SortNotesNoop(a) == a

\* a sort by start_time that is not stable: a note goes before the notes of
\* its start_time
RECURSIVE SortNotesUnstable(_)
SortNotesUnstable(a) ==
    IF a = <<>> THEN a
    ELSE LET rest == SortNotesUnstable(SubSeq(a, 1, Len(a) - 1))
             x == a[Len(a)]
             p == Cardinality({k \in 1..Len(rest) : rest[k].start_time < x.start_time})
         IN  InsertAt(rest, p, x)

\* list.sort(key = start_time): the stable sort
RECURSIVE SortNotes(_)
SortNotes(a) ==
    IF a = <<>> THEN a
    ELSE LET rest == SortNotes(SubSeq(a, 1, Len(a) - 1))
             x == a[Len(a)]
             p == Cardinality({k \in 1..Len(rest) : rest[k].start_time <= x.start_time})
         IN  InsertAt(rest, p, x)

IsSorted(a) == \A k \in 1..(Len(a) - 1) : a[k].start_time <= a[k + 1].start_time


----------------------------------------------------------------------------
(* Timeline: tracks *)

Track(t, i) == [id |-> t, instrument |-> i]

Tracks == [id : TrackIds, instrument : Instruments]

RECURSIVE SkipUsed(_, _)
SkipUsed(ts, t) == IF t \in DOMAIN ts THEN SkipUsed(ts, t + 1) ELSE t

\* the smallest id that is not in use
SmallestFreeId(ts) == SkipUsed(ts, 0)

\* an add_track without the while loop: t_id = len(tracks)
AddTrackIdNoSkip(ts) == Cardinality(DOMAIN ts)

\* the id add_track assigns: t_id = len(tracks); while t_id in tracks: t_id += 1
AddTrackId(ts) == SkipUsed(ts, Cardinality(DOMAIN ts))

\* populate_tracks(list): raise Warning(...) at the first colliding id
RECURSIVE PopulateTracksRun(_, _)
PopulateTracksRun(ts, list) ==
    IF list = <<>> THEN [tracks |-> ts, status |-> "ok"]
    ELSE IF Head(list).id \in DOMAIN ts THEN [tracks |-> ts, status |-> "Warning"]
    ELSE PopulateTracksRun((Head(list).id :> Head(list)) @@ ts, Tail(list))

----------------------------------------------------------------------------
(* Timeline.generate_audio *)

\* the end of the last note of the list, which is not always the latest end
EndOfLast(ns) == ns[Len(ns)].start_time + ns[Len(ns)].duration

RECURSIVE MaxEndOf(_)
MaxEndOf(ns) ==
    IF Len(ns) = 1 THEN ns[1].start_time + ns[1].duration
    ELSE Max(ns[1].start_time + ns[1].duration, MaxEndOf(Tail(ns)))

\* is the note skipped as entirely before the window (continue)
IsBefore(n, st) == n.start_time + n.duration <= st

\* does the loop stop at the note (break)
IsAfter(n, et) == n.start_time >= et

\* start_idx = int((note.start_time - start_time) * self.sr)
StartIdx(n, st, rate) == ToSamples(n.start_time - st, rate)

\* the loop over notes k..Len(ns); acc = [heap, audio, played, status]
RECURSIVE RenderLoop(_, _, _, _, _, _, _)
RenderLoop(k, ns, ts, rate, st, et, acc) ==
    IF k > Len(ns) THEN acc
    ELSE LET n == ns[k] IN
        IF IsBefore(n, st) THEN RenderLoop(k + 1, ns, ts, rate, st, et, acc)
        ELSE IF IsAfter(n, et) THEN acc
        ELSE IF n.track_id \notin DOMAIN ts THEN [acc EXCEPT !.status = "KeyError"]
        ELSE LET r == PlayNote(acc.heap, ts[n.track_id].instrument, n)
                 start_idx == StartIdx(n, st, rate)
                 played == [acc EXCEPT !.heap = r.heap, !.played = Append(@, k)]
             IN  IF CanAccumulate(Len(acc.audio), start_idx, Len(r.value))
                 THEN RenderLoop(k + 1, ns, ts, rate, st, et,
                        [played EXCEPT !.audio = Accumulate(@, start_idx, r.value)])
                 ELSE [played EXCEPT !.status = "BroadcastError"]

\* generate_audio on sorted notes ns: [heap, audio, played, status].
\* "EmptyMax" is max([]) raising ValueError, "NegativeDim" np.zeros(n < 0)
\* raising ValueError, "BroadcastError" the += raising ValueError.
GenerateAudioRun(ns, ts, h, rate, st, has_end, et) ==
    LET none == [heap |-> h, audio |-> <<>>, played |-> <<>>, status |-> "ok"]
    IN  IF ~has_end /\ ns = <<>> THEN [none EXCEPT !.status = "EmptyMax"]
        ELSE LET end_time == IF has_end THEN et ELSE MaxEndOf(ns)
                 n == ToSamples(end_time - st, rate)
             IN  IF n < 0 THEN [none EXCEPT !.status = "NegativeDim"]
                 ELSE RenderLoop(1, ns, ts, rate, st, end_time,
                                 [none EXCEPT !.audio = Zeros(n)])

----------------------------------------------------------------------------
(* The state machine *)

Heap == [wavetable |-> wavetable, calls |-> calls]

\* the threads that call Wavetable.__getitem__
Threads == 1..NumThreads

\* no thread is inside __getitem__
IdleThreads == [t \in Threads |-> [pc |-> "idle"]]

\* Timeline(keep_sorted = ..., sr = ...): no tracks, no notes
InitEmpty ==
    /\ tracks = <<>>
    /\ notes = <<>>
    /\ keep_sorted \in BOOLEAN
    /\ sr \in SampleRates
    /\ wavetable = [i \in Instruments |-> <<>>]
    /\ calls = [i \in Instruments |-> [k \in Pitches |-> 0]]
    /\ ret = [op |-> "init"]
    /\ threads = IdleThreads

\* Timeline(tracks = [Track(i, Instrument(Wavetable(x))) for i, x in enumerate(samples)])
InitTracks ==
    /\ tracks = [t \in 0..(NumInstruments - 1) |-> Track(t, t + 1)]
    /\ notes = <<>>
    /\ keep_sorted \in BOOLEAN
    /\ sr \in SampleRates
    /\ wavetable = [i \in Instruments |-> <<>>]
    /\ calls = [i \in Instruments |-> [k \in Pitches |-> 0]]
    /\ ret = [op |-> "init"]
    /\ threads = IdleThreads

\* Timeline(tracks = ..., notes = [Note(0, k, 0, d, v, time_wise = True) for k in pitches])
InitCache ==
    /\ tracks = [t \in 0..(NumInstruments - 1) |-> Track(t, t + 1)]
    /\ notes = [k \in 1..Len(PitchNames) |->
                  [track_id |-> 0, note |-> PitchNames[k], start_time |-> 0,
                   duration |-> MaxDuration, velocity |-> MaxVelocity,
                   time_wise |-> TRUE]]
    /\ keep_sorted \in BOOLEAN
    /\ sr \in SampleRates
    /\ wavetable = [i \in Instruments |-> <<>>]
    /\ calls = [i \in Instruments |-> [k \in Pitches |-> 0]]
    /\ ret = [op |-> "init"]
    /\ threads = IdleThreads

\* Timeline.add_note(n)
AddNote(n) ==
    /\ Len(notes) < MaxNotes
    /\ notes' = IF keep_sorted THEN Insort(notes, n) ELSE Append(notes, n)
    /\ ret' = [op |-> "add_note", note |-> n]
    /\ UNCHANGED <<tracks, keep_sorted, sr, wavetable, calls, threads>>

\* Timeline.populate_notes(ns)
PopulateNotes(ns) ==
    /\ Len(notes) + Len(ns) <= MaxNotes
    /\ notes' = IF keep_sorted THEN InsortAll(notes, ns) ELSE notes \o ns
    /\ ret' = [op |-> "populate_notes"]
    /\ UNCHANGED <<tracks, keep_sorted, sr, wavetable, calls, threads>>

\* Timeline.sort_notes()
SortNotesCall ==
    /\ notes' = SortNotes(notes)
    /\ ret' = [op |-> "sort_notes"]
    /\ UNCHANGED <<tracks, keep_sorted, sr, wavetable, calls, threads>>

\* Timeline.add_track(instrument): returns the id
AddTrack(i) ==
    LET t_id == AddTrackId(tracks) IN
    /\ t_id <= MaxTrackId
    /\ tracks' = (t_id :> Track(t_id, i)) @@ tracks
    /\ ret' = [op |-> "add_track", value |-> t_id]
    /\ UNCHANGED <<notes, keep_sorted, sr, wavetable, calls, threads>>

\* Timeline.populate_tracks(list): returns, or raises Warning
PopulateTracks(list) ==
    LET r == PopulateTracksRun(tracks, list) IN
    /\ tracks' = r.tracks
    /\ ret' = [op |-> "populate_tracks", status |-> r.status]
    /\ UNCHANGED <<notes, keep_sorted, sr, wavetable, calls, threads>>

\* wavetable[k] on the Wavetable of instrument i; hit: k was cached
GetItem(i, k) ==
    LET r == WavetableGetItem(Heap, i, k) IN
    /\ wavetable' = r.heap.wavetable
    /\ calls' = r.heap.calls
    /\ ret' = [op |-> "getitem", instrument |-> i, note |-> k,
               hit |-> k \in DOMAIN wavetable[i], value |-> r.value]
    /\ UNCHANGED <<tracks, notes, keep_sorted, sr, threads>>

\* instrument.play_note(n) on instrument i
PlayNoteCall(i, n) ==
    LET r == PlayNote(Heap, i, n) IN
    /\ wavetable' = r.heap.wavetable
    /\ calls' = r.heap.calls
    /\ ret' = [op |-> "play_note", instrument |-> i, note |-> n,
               hit |-> n.note \in DOMAIN wavetable[i], value |-> r.value]
    /\ UNCHANGED <<tracks, notes, keep_sorted, sr, threads>>

\* is the call generate_audio(st, et) the one ret holds
SameCall(st, has_end, et) ==
    /\ ret.op = "generate_audio"
    /\ ret.start_time = st
    /\ ret.has_end = has_end
    /\ ret.end_time = et

\* Timeline.generate_audio(st, et), or generate_audio(st) when ~has_end;
\* again: the call before was the same call
GenerateAudio(st, has_end, et) ==
    LET ns == IF keep_sorted THEN notes ELSE SortNotes(notes)
        r == GenerateAudioRun(ns, tracks, Heap, sr, st, has_end, et)
    IN
    /\ notes' = ns
    /\ wavetable' = r.heap.wavetable
    /\ calls' = r.heap.calls
    /\ ret' = [op |-> "generate_audio", start_time |-> st, has_end |-> has_end,
               end_time |-> et, status |-> r.status,
               audio |-> IF r.status = "ok" THEN r.audio ELSE <<>>,
               played |-> r.played, again |-> SameCall(st, has_end, et)]
    /\ UNCHANGED <<tracks, keep_sorted, sr, threads>>

ListsOf(S, m) == UNION {[1..j -> S] : j \in 1..m}

\* the notes of the note-ordering runs: they differ in start_time and time_wise
TimingNotes ==
    {n \in Notes : n.track_id = 0 /\ n.note = "C4" /\ n.duration = 1 /\ n.velocity = 1}

\* the notes of the render runs: on the Timeline's tracks, of one pitch and velocity
RenderNotes ==
    {n \in Notes : n.track_id < NumInstruments /\ n.note = "C4"
                   /\ n.duration > 0 /\ n.velocity = MaxVelocity}

\* the notes played directly in the cache runs: they differ in pitch, velocity
\* and time_wise
CacheNotes ==
    {n \in Notes : n.track_id = 0 /\ n.start_time = 0 /\ n.duration = MaxDuration}

\* building the note list
NextNotes ==
    \/ \E n \in TimingNotes : AddNote(n)
    \/ \E ns \in ListsOf(TimingNotes, MaxNoteList) : PopulateNotes(ns)
    \/ SortNotesCall

SpecNotes == InitEmpty /\ [][NextNotes]_vars

\* building the track set
NextTracks ==
    \/ \E i \in Instruments : AddTrack(i)
    \/ \E list \in ListsOf(Tracks, MaxTrackList) : PopulateTracks(list)

SpecTracks == InitEmpty /\ [][NextTracks]_vars

\* lookups, directly and through play_note and generate_audio
NextCache ==
    \/ \E i \in Instruments, k \in Pitches : GetItem(i, k)
    \/ \E i \in Instruments, n \in CacheNotes : PlayNoteCall(i, n)
    \/ GenerateAudio(0, FALSE, 0)

SpecCache == InitCache /\ [][NextCache]_vars

\* adding notes and rendering windows
Next ==
    \/ \E n \in RenderNotes : Len(notes) < MaxRenderNotes /\ AddNote(n)
    \/ \E st \in 0..MaxTime, et \in 0..MaxEnd : GenerateAudio(st, TRUE, et)
    \/ \E st \in 0..MaxTime : GenerateAudio(st, FALSE, 0)

Spec == InitTracks /\ [][Next]_vars

\* a lookup that never finds the pitch in the cache
NeverCached(w, i, k) == FALSE

\* k in self.wavetable
IsCached(w, i, k) == k \in DOMAIN w[i]

\* self.wavetable[k] = sound
StoreSound(w, i, k, sound) == [w EXCEPT ![i] = (k :> sound) @@ @]

\* thread t calls wavetable[k] on instrument i and evaluates the condition
\* "k not in self.wavetable"
TestCached(t, i, k) ==
    /\ threads[t].pc = "idle"
    /\ threads' = [threads EXCEPT ![t] =
                      [pc |-> IF IsCached(wavetable, i, k) THEN "return" ELSE "generate",
                       instrument |-> i, note |-> k,
                       hit |-> IsCached(wavetable, i, k)]]
    /\ UNCHANGED <<tracks, notes, keep_sorted, sr, wavetable, calls, ret>>

\* thread t, having found the pitch absent, evaluates self.get_sound(k)
Generate(t) ==
    /\ threads[t].pc = "generate"
    /\ LET g == WavetableGetSound(Heap, threads[t].instrument, threads[t].note)
       IN  /\ calls' = g.heap.calls
           /\ threads' = [threads EXCEPT ![t] =
                             [pc |-> "store", instrument |-> @.instrument,
                              note |-> @.note, hit |-> @.hit, sound |-> g.value]]
    /\ UNCHANGED <<tracks, notes, keep_sorted, sr, wavetable, ret>>

\* thread t stores the sound it generated under the pitch
Store(t) ==
    /\ threads[t].pc = "store"
    /\ wavetable' = StoreSound(wavetable, threads[t].instrument, threads[t].note,
                               threads[t].sound)
    /\ threads' = [threads EXCEPT ![t] =
                      [pc |-> "return", instrument |-> @.instrument,
                       note |-> @.note, hit |-> @.hit]]
    /\ UNCHANGED <<tracks, notes, keep_sorted, sr, calls, ret>>

\* thread t returns self.wavetable[k]
Return(t) ==
    /\ threads[t].pc = "return"
    /\ ret' = [op |-> "getitem", instrument |-> threads[t].instrument,
               note |-> threads[t].note, hit |-> threads[t].hit,
               value |-> wavetable[threads[t].instrument][threads[t].note]]
    /\ threads' = [threads EXCEPT ![t] = [pc |-> "idle"]]
    /\ UNCHANGED <<tracks, notes, keep_sorted, sr, wavetable, calls>>

\* the instrument whose Wavetable the threads share
SharedWavetable == NumInstruments

\* threads that look pitches up in one Wavetable, a thread switch possible
\* between any two steps of __getitem__
NextThreads ==
    \E t \in Threads :
        \/ \E k \in Pitches : TestCached(t, SharedWavetable, k)
        \/ Generate(t)
        \/ Store(t)
        \/ Return(t)

SpecThreads == InitEmpty /\ [][NextThreads]_vars

\* the notes handed to play_note alone: every pitch, velocity and trim flag,
\* durations from 0 to more than the sample lasts
PlayNotes ==
    [track_id : {0}, note : Pitches, start_time : {0},
     duration : 0..MaxPlayDuration, velocity : Velocities, time_wise : BOOLEAN]

\* Instrument.play_note called directly
NextPlay == \E i \in Instruments, n \in PlayNotes : PlayNoteCall(i, n)

SpecPlay == InitEmpty /\ [][NextPlay]_vars

\* the notes of the renders with unknown tracks: untrimmed notes on the last
\* track of the Timeline and on ids that no track has
UnknownTrackNotes ==
    {n \in Notes : /\ n.track_id >= NumInstruments - 1
                   /\ n.note = "C4"
                   /\ n.duration > 0
                   /\ n.velocity = 1
                   /\ ~n.time_wise}

\* add_note and generate_audio on a Timeline whose notes may name a track
\* that does not exist
NextUnknown ==
    \/ \E n \in UnknownTrackNotes : Len(notes) < MaxRenderNotes /\ AddNote(n)
    \/ \E st \in 0..MaxTime, et \in 0..MaxEnd : GenerateAudio(st, TRUE, et)
    \/ \E st \in 0..MaxTime : GenerateAudio(st, FALSE, 0)

SpecUnknown == InitTracks /\ [][NextUnknown]_vars

----------------------------------------------------------------------------
(* Claims *)

\* C1: with keep_sorted, after any sequence of add_note and populate_notes
\* calls the note list is non-decreasing in start_time.
C1_Sorted == keep_sorted => IsSorted(notes)

\* a note added last and inserted before the notes that start later
C1_Witness ==
    /\ keep_sorted
    /\ ret.op = "add_note"
    /\ Len(notes) = MaxNotes
    /\ ret.note = notes[1]
    /\ notes[1].start_time < notes[2].start_time

\* C2: the sound generator is called at most once per Wavetable and pitch,
\* a cached buffer is never replaced, and a lookup of a cached pitch returns
\* the cached buffer and calls the generator no more.
C2_GeneratedOnce ==
    [][\A i \in Instruments, k \in Pitches :
        /\ calls'[i][k] <= 1
        /\ k \in DOMAIN wavetable[i] =>
            /\ k \in DOMAIN wavetable'[i]
            /\ wavetable'[i][k] = wavetable[i][k]
            /\ calls'[i][k] = calls[i][k]
            /\ (ret'.op = "getitem" /\ ret'.instrument = i /\ ret'.note = k)
                  => ret'.value = wavetable[i][k]]_vars

\* a lookup of a pitch that was cached
C2_Witness ==
    /\ ret.op = "getitem"
    /\ ret.hit
    /\ calls[ret.instrument][ret.note] = 1
    /\ ret.value = wavetable[ret.instrument][ret.note]

\* C9 as stated: add_track returns the smallest non-negative integer that is
\* not a track id.
C9_SmallestFree ==
    [][\A i \in Instruments : AddTrack(i) => ret'.value = SmallestFreeId(tracks)]_vars

\* C9 as amended: add_track assigns and returns the smallest integer that is
\* at least the number of tracks and is not a track id, and binds it to the
\* new track.
C9_SmallestFromLen ==
    [][\A i \in Instruments : AddTrack(i) =>
        LET v == ret'.value
            n == Cardinality(DOMAIN tracks)
        IN  /\ v >= n
            /\ v \notin DOMAIN tracks
            /\ \A t \in n..(v - 1) : t \in DOMAIN tracks
            /\ tracks' = (v :> Track(v, i)) @@ tracks]_vars

\* add_track returned 1 while id 0 is free
C9_Witness ==
    /\ ret.op = "add_track"
    /\ ret.value = 1
    /\ 0 \notin DOMAIN tracks
    /\ 1 \in DOMAIN tracks

\* C10: populate_tracks with a colliding id does not abort: it returns, and
\* every track of the list is in the Timeline afterwards under its id, the
\* last track of an id replacing what was there.
C10_CollisionRecoverable ==
    [][\A list \in ListsOf(Tracks, MaxTrackList) : PopulateTracks(list) =>
        /\ ret'.status = "ok"
        /\ \A k \in 1..Len(list) :
            /\ list[k].id \in DOMAIN tracks'
            /\ (\A j \in (k + 1)..Len(list) : list[j].id # list[k].id)
                  => tracks'[list[k].id] = list[k]]_vars

----------------------------------------------------------------------------
(* The last render, read from the state generate_audio leaves: the notes are
   in the order they were iterated in, ret holds the arguments and the result *)

IsRender == ret.op = "generate_audio"

RenderEnd == IF ret.has_end THEN ret.end_time ELSE MaxEndOf(notes)

RenderLen == ToSamples(RenderEnd - ret.start_time, sr)

\* the render has an end time and a buffer length that is not negative
HasBuffer == IsRender /\ (ret.has_end \/ notes # <<>>) /\ RenderLen >= 0

PlayedSet == {ret.played[j] : j \in 1..Len(ret.played)}

\* note k is neither skipped nor at or after the note the loop stops at
Visited(k) ==
    /\ ~IsBefore(notes[k], ret.start_time)
    /\ \A j \in 1..k : IsBefore(notes[j], ret.start_time) \/ ~IsAfter(notes[j], RenderEnd)

Known(k) == notes[k].track_id \in DOMAIN tracks

\* what the instrument of note k returns for it
Rendered(k) ==
    LET i == tracks[notes[k].track_id].instrument
    IN  NoteSound(SampleData(i), i, notes[k])

NoteStartIdx(k) == StartIdx(notes[k], ret.start_time, sr)

Fits(k) == NoteStartIdx(k) >= 0 /\ NoteStartIdx(k) + Len(Rendered(k)) <= RenderLen

\* the sample of note k that falls on output sample x (counted from 1)
Contribution(k, x) ==
    LET j == x - NoteStartIdx(k)
    IN  IF j >= 1 /\ j <= Len(Rendered(k)) THEN Rendered(k)[j] ELSE 0

\* the sum on output sample x of the visited notes among 1..k
RECURSIVE MixSum(_, _)
MixSum(k, x) ==
    IF k = 0 THEN 0
    ELSE MixSum(k - 1, x) + (IF Visited(k) THEN Contribution(k, x) ELSE 0)

IsMix == /\ ret.status = "ok"
         /\ Len(ret.audio) = RenderLen
         /\ \A x \in 1..RenderLen : ret.audio[x] = MixSum(Len(notes), x)

\* C3: generate_audio called again with the same arguments, with no other
\* call in between, returns what the call before returned (the same buffer,
\* or the same failure).
C3_Idempotent ==
    [][(/\ ret.op = "generate_audio"
        /\ ret'.op = "generate_audio"
        /\ ret'.start_time = ret.start_time
        /\ ret'.has_end = ret.has_end
        /\ ret'.end_time = ret.end_time)
       => (ret'.status = ret.status /\ ret'.audio = ret.audio)]_vars

\* a repeated render of two notes, of a list that is sorted at render time
C3_Witness ==
    /\ IsRender
    /\ ret.again
    /\ ~keep_sorted
    /\ ret.status = "ok"
    /\ Len(ret.played) = 2
    /\ \E x \in 1..Len(ret.audio) : ret.audio[x] # 0

\* C4: play_note leaves every cached buffer as it was generated, and returns
\* the samples of that buffer multiplied by the note's velocity.
C4_CacheUntouched ==
    /\ \A i \in Instruments : \A k \in DOMAIN wavetable[i] :
          wavetable[i][k] = SampleData(i)
    /\ ret.op = "play_note" =>
          /\ Len(ret.value) <= Len(SampleData(ret.instrument))
          /\ ~ret.note.time_wise => Len(ret.value) = Len(SampleData(ret.instrument))
          /\ \A x \in 1..Len(ret.value) :
                ret.value[x] = SampleData(ret.instrument)[x] * ret.note.velocity

\* a trimmed note played at velocity 2 from a pitch that was cached
C4_Witness ==
    /\ ret.op = "play_note"
    /\ ret.hit
    /\ ret.note.velocity = 2
    /\ ret.note.time_wise
    /\ ret.value # <<>>
    /\ wavetable[ret.instrument][ret.note.note] = SampleData(ret.instrument)

\* C5: when every visited note is on a known track and its samples fit in
\* the output buffer, the render succeeds and every output sample is the sum
\* of the visited notes' samples that fall on it.
C5_MixIsSum ==
    (/\ HasBuffer
     /\ \A k \in 1..Len(notes) : Visited(k) => (Known(k) /\ Fits(k)))
    => IsMix

\* two notes on different tracks with the same start_time, both mixed in
C5_Witness ==
    /\ HasBuffer
    /\ ret.status = "ok"
    /\ Len(notes) = 2
    /\ ret.played = <<1, 2>>
    /\ notes[1].track_id # notes[2].track_id
    /\ notes[1].start_time = notes[2].start_time
    /\ Fits(1) /\ Fits(2)
    /\ Rendered(1) # <<>> /\ Rendered(2) # <<>>
    /\ ret.audio[NoteStartIdx(1) + 1] = Rendered(1)[1] + Rendered(2)[1]

\* C6: a render of a window that starts a whole number of samples after the
\* start of the only note, which overlaps the window, succeeds and returns
\* the part of the note's rendered audio inside the window.
C6_WindowClipping ==
    (/\ HasBuffer
     /\ ret.has_end
     /\ Len(notes) = 1
     /\ Known(1)
     /\ notes[1].start_time < ret.start_time
     /\ notes[1].start_time + notes[1].duration > ret.start_time
     /\ notes[1].start_time < ret.end_time
     /\ ret.start_time < ret.end_time
     /\ ((ret.start_time - notes[1].start_time) * sr) % TimeDen = 0)
    => LET off == ((ret.start_time - notes[1].start_time) * sr) \div TimeDen
       IN  /\ ret.status = "ok"
           /\ Len(ret.audio) = RenderLen
           /\ \A x \in 1..RenderLen :
                 ret.audio[x] = IF x + off <= Len(Rendered(1))
                                THEN Rendered(1)[x + off] ELSE 0

\* C7: a note with start_time >= end_time is not played, nor is any note
\* after it in the list; and a render that succeeds has played every note
\* that starts before end_time and ends after start_time.
C7_EarlyExit ==
    HasBuffer =>
        /\ \A k \in 1..Len(notes) :
              notes[k].start_time >= RenderEnd =>
                  \A j \in k..Len(notes) : j \notin PlayedSet
        /\ ret.status = "ok" =>
              \A k \in 1..Len(notes) :
                  (notes[k].start_time < RenderEnd /\ ~IsBefore(notes[k], ret.start_time))
                      => k \in PlayedSet

\* the loop played the first note and stopped at the second
C7_Witness ==
    /\ HasBuffer
    /\ ret.status = "ok"
    /\ Len(notes) = 2
    /\ ret.played = <<1>>
    /\ notes[2].start_time >= RenderEnd
    /\ \E x \in 1..Len(ret.audio) : ret.audio[x] # 0

\* C8: when a visited note's samples start inside the output buffer and end
\* past its end, the render does not fail and writes the samples that fall
\* inside the buffer.
C8_ClipsPastEnd ==
    (/\ HasBuffer
     /\ \A k \in 1..Len(notes) : Visited(k) => (Known(k) /\ NoteStartIdx(k) >= 0)
     /\ \E k \in 1..Len(notes) :
           Visited(k) /\ NoteStartIdx(k) + Len(Rendered(k)) > RenderLen)
    => IsMix

\* C11 as stated: on a Timeline with no notes, generate_audio without an
\* end_time fails and returns no buffer, and with an end_time it succeeds and
\* returns a buffer of zeros.
C11_EmptyTimeline ==
    (IsRender /\ notes = <<>>) =>
        IF ret.has_end
        THEN ret.status = "ok" /\ \A x \in 1..Len(ret.audio) : ret.audio[x] = 0
        ELSE ret.status # "ok" /\ ret.audio = <<>>

\* C11 as amended: the render with an end_time succeeds when end_time is not
\* before start_time, and its buffer has int((end_time - start_time) * sr)
\* zeros.
C11_EmptyTimelineFromStart ==
    (IsRender /\ notes = <<>>) =>
        /\ ~ret.has_end => (ret.status = "EmptyMax" /\ ret.audio = <<>>)
        /\ (ret.has_end /\ ret.end_time >= ret.start_time) =>
              /\ ret.status = "ok"
              /\ Len(ret.audio) = ((ret.end_time - ret.start_time) * sr) \div TimeDen
              /\ \A x \in 1..Len(ret.audio) : ret.audio[x] = 0

\* a window of at least one sample rendered on a Timeline with no notes
C11_Witness ==
    /\ IsRender
    /\ notes = <<>>
    /\ ret.has_end
    /\ ret.status = "ok"
    /\ Len(ret.audio) >= 1

\* C12: a render that gets as far as its buffer aborts with the unknown-track
\* error (KeyError) and returns no buffer exactly when some visited note names
\* a track the Timeline does not have; notes outside the window are not
\* visited and cause no error.
C12_UnknownTrack ==
    HasBuffer =>
        /\ ret.status = "KeyError" <=> \E k \in 1..Len(notes) : Visited(k) /\ ~Known(k)
        /\ ret.status = "KeyError" => ret.audio = <<>>

\* C12 where every visited note of a known track fits the buffer
C12_UnknownTrackWhenFits ==
    (HasBuffer /\ \A k \in 1..Len(notes) : (Visited(k) /\ Known(k)) => Fits(k)) =>
        /\ ret.status = "KeyError" <=> \E k \in 1..Len(notes) : Visited(k) /\ ~Known(k)
        /\ ret.status = "KeyError" => ret.audio = <<>>

\* C13: play_note returns min(len(base), floor(duration * sample rate))
\* samples of the velocity-scaled sample when the note is trimmed and all of
\* them when it is not; a sample shorter than the duration is not padded.
C13_PlayNoteLength ==
    ret.op = "play_note" =>
        LET base == SampleData(ret.instrument)
            requested == (ret.note.duration * WavetableSr(ret.instrument)) \div TimeDen
        IN  /\ Len(ret.value) = IF ret.note.time_wise
                                THEN Min(Len(base), requested)
                                ELSE Len(base)
            /\ \A x \in 1..Len(ret.value) : ret.value[x] = base[x] * ret.note.velocity

\* a trimmed note that lasts longer than its sample
C13_Witness ==
    /\ ret.op = "play_note"
    /\ ret.note.time_wise
    /\ (ret.note.duration * WavetableSr(ret.instrument)) \div TimeDen
          > Len(SampleData(ret.instrument))
    /\ Len(ret.value) = Len(SampleData(ret.instrument))

\* how many times the note n is in the list a
Count(a, n) == Cardinality({k \in 1..Len(a) : a[k] = n})

\* C14 as stated: generate_audio, with keep_sorted true or false, leaves the
\* track set and the note sequence, its members and their order, as they were.
C14_PureRead ==
    [][ret'.op = "generate_audio" => (tracks' = tracks /\ notes' = notes)]_vars

\* C14 as amended: generate_audio leaves the tracks and the members of the
\* note sequence as they were; the order is kept when keep_sorted is true or
\* the notes are already in start_time order, and otherwise the call leaves
\* the notes sorted by start_time.
C14_SortsInPlace ==
    [][ret'.op = "generate_audio" =>
          /\ tracks' = tracks
          /\ Len(notes') = Len(notes)
          /\ \A k \in 1..Len(notes) : Count(notes', notes[k]) = Count(notes, notes[k])
          /\ (keep_sorted \/ IsSorted(notes)) => notes' = notes
          /\ ~keep_sorted => IsSorted(notes')]_vars

\* a render of two different notes of one start_time with keep_sorted false
C14_Witness ==
    /\ IsRender
    /\ ~keep_sorted
    /\ Len(notes) = 2
    /\ notes[1] # notes[2]
    /\ notes[1].start_time = notes[2].start_time

\* C15: with keep_sorted true add_note puts the note after every note that
\* starts no later than it (so after the notes of its own start_time) and
\* before every note that starts later; with keep_sorted false it appends the
\* note at the end.
C15_InsertAfterEqual ==
    [][\A n \in TimingNotes :
          AddNote(n) =>
              IF keep_sorted
              THEN \E p \in 0..Len(notes) :
                      /\ notes' = InsertAt(notes, p, n)
                      /\ \A k \in 1..p : notes[k].start_time <= n.start_time
                      /\ \A k \in (p + 1)..Len(notes) : notes[k].start_time > n.start_time
              ELSE notes' = Append(notes, n)]_vars

\* a note added with keep_sorted true between a different note of its own
\* start_time and a later note
C15_Witness ==
    /\ keep_sorted
    /\ ret.op = "add_note"
    /\ Len(notes) = 3
    /\ notes[2] = ret.note
    /\ notes[1] # notes[2]
    /\ notes[1].start_time = notes[2].start_time
    /\ notes[3].start_time > notes[2].start_time

\* C16 as stated: the buffer a render returns has round((end_time -
\* start_time) * sr) samples, also when the fractional part is 0.5 or more.
C16_RoundedLength ==
    (IsRender /\ ret.status = "ok") =>
        Len(ret.audio) = PyRound((RenderEnd - ret.start_time) * sr, TimeDen)

\* C16 as amended: the buffer has int((end_time - start_time) * sr) samples,
\* the product with its fractional part dropped.
C16_TruncatedLength ==
    (IsRender /\ ret.status = "ok") =>
        LET x == (RenderEnd - ret.start_time) * sr
        IN  IF x >= 0
            THEN Len(ret.audio) * TimeDen <= x /\ x < (Len(ret.audio) + 1) * TimeDen
            ELSE Len(ret.audio) = 0

\* a render of 1.5 samples that returns the one sample of its note
C16_Witness ==
    /\ IsRender
    /\ ret.status = "ok"
    /\ ((RenderEnd - ret.start_time) * sr) % TimeDen > 0
    /\ 2 * (((RenderEnd - ret.start_time) * sr) % TimeDen) >= TimeDen
    /\ Len(ret.audio) >= 1
    /\ ret.played # <<>>
    /\ ret.audio[1] # 0

\* the note list of a Timeline with keep_sorted true that was given the
\* add_note calls adds, in that order
SortedTimelineNotes(adds) == InsortAll(<<>>, adds)

\* C17: the notes of a Timeline with keep_sorted false are the add_note calls
\* in the order they were made; sorted as generate_audio sorts them, they are
\* in the order a Timeline with keep_sorted true holds after the same calls,
\* notes of equal start_time included, which is the list the render iterates.
C17_SameOrder ==
    ~keep_sorted => SortNotes(notes) = SortedTimelineNotes(notes)

\* three notes added out of order with keep_sorted false, two of them
\* different notes of one start_time
C17_Witness ==
    /\ ~keep_sorted
    /\ ret.op = "add_note"
    /\ Len(notes) = 3
    /\ notes[3] = ret.note
    /\ ~IsSorted(notes)
    /\ \E j \in 1..3, k \in 1..3 :
          j < k /\ notes[j] # notes[k] /\ notes[j].start_time = notes[k].start_time

\* generate_audio() with its defaults on a Timeline that has notes, all of
\* them trimmed to their duration and on tracks the Timeline has
DefaultRender ==
    /\ IsRender
    /\ ret.start_time = 0
    /\ ~ret.has_end
    /\ notes # <<>>
    /\ \A k \in 1..Len(notes) :
          notes[k].start_time >= 0 /\ Known(k) /\ notes[k].time_wise

\* the sample rate of the Wavetable that plays note k
NoteWavetableSr(k) == WavetableSr(tracks[notes[k].track_id].instrument)

C19_NoOverwrite ==
    [][\A i \in Instruments :
          AddTrack(i) =>
              /\ ret'.value \notin DOMAIN tracks
              /\ \A t \in DOMAIN tracks :
                    t \in DOMAIN tracks' /\ tracks'[t] = tracks[t] /\ tracks'[t].id = t]_vars

\* add_track after populate_tracks gave a track the id len(tracks): the id
\* returned is the next one
C19_Witness ==
    /\ ret.op = "add_track"
    /\ ret.value = 2
    /\ DOMAIN tracks = {1, 2}

\* C20: the lookup of an absent pitch is a test, a call of the generator and
\* a store, and threads can interleave between them: two threads that look
\* the same absent pitch up can both find it absent and both call the
\* generator (C20_Witness is such a state). The generator is called for a
\* pitch at most once by each thread, since a thread's own store makes its
\* later lookups hits, and every lookup returns the generated sound.
C20_OncePerThread ==
    /\ \A i \in Instruments, k \in Pitches :
          /\ calls[i][k] <= NumThreads
          /\ IsCached(wavetable, i, k) => (calls[i][k] >= 1 /\ wavetable[i][k] = SampleData(i))
    /\ ret.op = "getitem" => ret.value = SampleData(ret.instrument)

\* two threads that both found the same pitch absent and both called the
\* generator for it
C20_Witness ==
    \E t \in Threads, u \in Threads :
        /\ t # u
        /\ threads[t].pc = "store"
        /\ threads[u].pc = "store"
        /\ ~threads[t].hit
        /\ ~threads[u].hit
        /\ threads[t].instrument = threads[u].instrument
        /\ threads[t].note = threads[u].note
        /\ calls[threads[t].instrument][threads[t].note] = 2

============================================================================
